---- MODULE Spec2Model ----
(***************************************************************************)
(* Model of src/auth.py: the signed session-token codec                    *)
(* (create_access_token / decode_access_token), the bearer guard           *)
(* (require_jwt) and the OAuth2 login / callback handlers.                 *)
(*                                                                         *)
(* Time is counted in ticks; TicksPerSecond ticks make one second, so that *)
(* instants finer than the one-second resolution of the `exp` claim exist. *)
(* JSON values are tagged pairs <<tag, value>>: a string, a number, null,  *)
(* or (before encoding only) a datetime.                                   *)
(***************************************************************************)
EXTENDS Integers, Sequences, FiniteSets, TLC

VARIABLES
    now,                    \* the clock read by datetime.utcnow(), in ticks
    JWT_EXPIRE_MINUTES,     \* configuration, read once at import
    GOOGLE_CLIENT_ID,       \* configuration, read once at import
    GOOGLE_CLIENT_SECRET,   \* configuration, read once at import
    issued,                 \* the most recent call of create_access_token
    resp,                   \* the outcome of the request handled at this instant
    sessions,               \* per client: the anti-forgery states its session holds
    nstates,                \* how many anti-forgery states have been generated
    req,                    \* the callback requests in flight, by slot
    attempt                 \* history: the phase of each login attempt

vars == <<now, JWT_EXPIRE_MINUTES, GOOGLE_CLIENT_ID, GOOGLE_CLIENT_SECRET, issued, resp,
          sessions, nstates, req, attempt>>

----------------------------------------------------------------------------
(* Bounds of the model *)

MaxTime == 6              \* the clock stops advancing at this tick
TicksPerSecond == 2       \* sub-second resolution of the clock
SecondsPerMinute == 2     \* scaled length of a minute

TicksPerMinute == SecondsPerMinute * TicksPerSecond

----------------------------------------------------------------------------
(* Values *)

Str(s) == <<"str", s>>
Num(n) == <<"num", n>>
Null == <<"null", 0>>
DateTime(t) == <<"datetime", t>>

None == <<"None", 0>>
TimeDelta(t) == <<"timedelta", t>>

\* Python truthiness of an Optional[timedelta]: None and timedelta(0) are falsy.
TimeDeltaTruthy(d) == d[1] = "timedelta" /\ d[2] # 0

\* Python truthiness of an Optional[str]: None and "" are falsy.
StrTruthy(s) == s[1] = "str" /\ s[2] # ""

\* dict.update({k: v}) on a copy of d
Update(d, k, v) == [x \in (DOMAIN d) \cup {k} |-> IF x = k THEN v ELSE d[x]]

EmptyDict == [x \in {} |-> Null]

----------------------------------------------------------------------------
(* Configuration *)

JWT_SECRET_KEY == "dev-secret-change-me"
JWT_ALGORITHM == "HS256"

\* The values the environment can give the three settings that vary.
ExpireMinutesValues == {-1, 0, 1}
ClientSettingValues == {None, Str(""), Str("client")}

----------------------------------------------------------------------------
(* jose.jwt, as used by the codec *)

\* Unused low bits of the last base64url character of an HS256 signature
\* segment (32 bytes = 256 bits in 43 characters of 6 bits).
TrailingBits == 2

\* A base64url segment is the bytes it carries and the value of the unused
\* trailing bits of its last character; the encoder writes them as zero and
\* the decoder drops them.
base64url_encode(bytes) == [bytes |-> bytes, pad |-> 0]
base64url_decode(segment) == segment.bytes

\* The MAC of the signing input (header and payload) under a key: distinct
\* inputs or keys give distinct MACs.
HmacSign(key, alg, header, payload) == <<key, alg, header, payload>>

\* The conversion rounding a part of a second up to the next whole second.
timegm_rounding_up(t) == (t + TicksPerSecond - 1) \div TicksPerSecond

\* timegm(dt.utctimetuple()): whole seconds, the sub-second part dropped.
timegm(t) == t \div TicksPerSecond

\* jwt.encode: datetime-valued time claims become integer seconds, then the
\* header and payload are signed.
EncodeTimeClaims(claims) ==
    [k \in DOMAIN claims |->
        IF k \in {"exp", "iat", "nbf"} /\ claims[k][1] = "datetime"
        THEN Num(timegm(claims[k][2]))
        ELSE claims[k]]

jwt_encode(claims, key, algorithm) ==
    LET header == [alg |-> algorithm, typ |-> "JWT"]
        payload == EncodeTimeClaims(claims)
    IN  [header |-> header,
         payload |-> payload,
         signature |-> base64url_encode(HmacSign(key, algorithm, header, payload))]

\* jws.verify: the header's alg must be one of the allowed algorithms and the
\* decoded signature must equal the MAC recomputed under the key.
SignatureVerifies(token, key, algorithms) ==
    /\ token.header.alg \in algorithms
    /\ base64url_decode(token.signature)
         = HmacSign(key, token.header.alg, token.header, token.payload)

\* _validate_exp: an absent exp is not checked; a present exp must not be
\* earlier than the current whole second.
ValidateExp(claims, t) ==
    \/ "exp" \notin DOMAIN claims
    \/ /\ claims["exp"][1] = "num"
       /\ ~(claims["exp"][2] < timegm(t))

\* _validate_sub: an absent sub is not checked; a present sub must be a string.
ValidateSub(claims) ==
    \/ "sub" \notin DOMAIN claims
    \/ claims["sub"][1] = "str"

\* jwt.decode at clock reading t: TRUE when it returns the payload, FALSE when
\* it raises JWTError.
jwt_decode_ok(token, key, algorithms, t) ==
    /\ SignatureVerifies(token, key, algorithms)
    /\ ValidateExp(token.payload, t)
    /\ ValidateSub(token.payload)

----------------------------------------------------------------------------
(* Outcomes of a call or a request *)

Return(v) == [exc |-> "", status |-> 200, detail |-> "", body |-> v]
HTTPException(code, text) ==
    [exc |-> "HTTPException", status |-> code, detail |-> text, body |-> EmptyDict]

InvalidTokenError == HTTPException(401, "Invalid or expired JWT token")
MissingCredentialError == HTTPException(401, "Missing Authorization: Bearer token")

----------------------------------------------------------------------------
(* TokenCodec *)

\* create_access_token with the expires_delta argument ignored.
create_access_token_default_ttl(data, expires_delta, t) ==
    LET expire == t + JWT_EXPIRE_MINUTES * TicksPerMinute
        to_encode == Update(data, "exp", DateTime(expire))
    IN  jwt_encode(to_encode, JWT_SECRET_KEY, JWT_ALGORITHM)

create_access_token(data, expires_delta, t) ==
    LET expire == t + (IF TimeDeltaTruthy(expires_delta)
                       THEN expires_delta[2]
                       ELSE JWT_EXPIRE_MINUTES * TicksPerMinute)
        to_encode == Update(data, "exp", DateTime(expire))
    IN  jwt_encode(to_encode, JWT_SECRET_KEY, JWT_ALGORITHM)

\* create_access_token writing exp into the mapping it was given.
caller_data_after_in_place(data, expires_delta, t) ==
    Update(data, "exp",
           DateTime(t + (IF TimeDeltaTruthy(expires_delta) THEN expires_delta[2]
                         ELSE JWT_EXPIRE_MINUTES * TicksPerMinute)))

\* What the caller's mapping `data` holds when create_access_token returns:
\* the update is made on data.copy(), so what it held before.
caller_data_after(data, expires_delta, t) == data

\* decode_access_token with the expiry check switched off.
decode_access_token_no_exp_check(token, t) ==
    IF SignatureVerifies(token, JWT_SECRET_KEY, {JWT_ALGORITHM}) /\ ValidateSub(token.payload)
    THEN Return(token.payload)
    ELSE InvalidTokenError

\* decode_access_token with the payload read without verification.
decode_access_token_unverified(token, t) == Return(token.payload)

decode_access_token(token, t) ==
    IF jwt_decode_ok(token, JWT_SECRET_KEY, {JWT_ALGORITHM}, t)
    THEN Return(token.payload)
    ELSE InvalidTokenError

----------------------------------------------------------------------------
(* AuthGuard *)

\* A request without an Authorization header, and the None that HTTPBearer
\* returns for it.
NoHeader == [scheme |-> ""]
NoCredentials == [none |-> TRUE]

\* HTTPBearer(auto_error=False): the credentials of a Bearer authorization
\* header, None for a missing header or another scheme.
bearer_scheme(authorization) ==
    IF authorization.scheme = "Bearer"
    THEN [scheme |-> "Bearer", credentials |-> authorization.credentials]
    ELSE NoCredentials

\* require_jwt without the check for missing credentials: the absent token
\* goes to the decoder, which rejects it.
require_jwt_no_none_check(credentials, t) ==
    IF credentials = NoCredentials
    THEN [decoded |-> TRUE, result |-> InvalidTokenError]
    ELSE [decoded |-> TRUE, result |-> decode_access_token(credentials.credentials, t)]

\* require_jwt answering every rejected token as if none had been sent.
require_jwt_masking(credentials, t) ==
    IF credentials = NoCredentials
           \/ decode_access_token(credentials.credentials, t) = InvalidTokenError
    THEN [decoded |-> credentials # NoCredentials, result |-> MissingCredentialError]
    ELSE [decoded |-> TRUE, result |-> decode_access_token(credentials.credentials, t)]

\* The outcome of require_jwt and whether it called decode_access_token.
require_jwt(credentials, t) ==
    IF credentials = NoCredentials
    THEN [decoded |-> FALSE, result |-> MissingCredentialError]
    ELSE [decoded |-> TRUE, result |-> decode_access_token(credentials.credentials, t)]

----------------------------------------------------------------------------
(* Inputs *)

\* Claims mappings handed to create_access_token: sub absent, empty, a
\* string or a number; email null or a string; with or without an exp of the
\* caller's own.
EmailValues == {Null, Str("a@b.com")}
CallerExp == Num(7)

Passengers(e) == [email |-> e, provider |-> Str("google"), iss |-> Str("ms1-user-service")]

ClaimsInputs ==
    LET withSub(s, e) == Update(Passengers(e), "sub", s)
    IN  {Passengers(e) : e \in EmailValues}
            \cup {withSub(Str("1234"), e) : e \in EmailValues}
            \cup {withSub(Str(""), Null), withSub(Num(1234), Str("a@b.com"))}
            \cup {Update(withSub(Str("1234"), Null), "exp", CallerExp)}

\* The expires_delta arguments: omitted, zero, negative and positive, in ticks.
DeltaInputs == {None} \cup {TimeDelta(d) : d \in {-TicksPerSecond, -1, 0, 1, TicksPerMinute}}

\* What a client can do to a token it holds before presenting it.
TrailingBitVariants(token) ==
    {[token EXCEPT !.signature.pad = p] : p \in 1..(2^TrailingBits - 1)}

ResignedWith(token, key, alg, payload) ==
    LET header == [token.header EXCEPT !.alg = alg]
    IN  [header |-> header, payload |-> payload,
         signature |-> base64url_encode(HmacSign(key, alg, header, payload))]

WithoutExp(claims) == [k \in (DOMAIN claims) \ {"exp"} |-> claims[k]]

SignatureForgeries(token) ==
    { [token EXCEPT !.signature.bytes = <<"garbage">>],
      ResignedWith(token, "other-secret", token.header.alg, token.payload),
      [token EXCEPT !.payload = Update(token.payload, "sub", Str("admin"))],
      [token EXCEPT !.header.alg = "none"],
      ResignedWith(token, JWT_SECRET_KEY, "HS512", token.payload) }

Presentable(token) ==
    {token} \cup TrailingBitVariants(token) \cup SignatureForgeries(token)
        \cup {ResignedWith(token, JWT_SECRET_KEY, JWT_ALGORITHM, WithoutExp(token.payload))}

AuthorizationHeaders ==
    {NoHeader}
        \cup (IF issued.minted
              THEN {[scheme |-> "Basic", credentials |-> issued.token]}
                     \cup {[scheme |-> "Bearer", credentials |-> tok] :
                                tok \in Presentable(issued.token)}
              ELSE {})

----------------------------------------------------------------------------
(* Provider client (authlib), as used by the handlers *)

MaxLogins == 2            \* anti-forgery states generated in one behaviour
MaxRequests == 2          \* callback requests in flight at once

Clients == {"c1", "c2"}
Slots == 1..MaxRequests

\* The state parameter of a callback request: absent, a value no login ever
\* generates, or a value some login generated.
NoState == [by |-> "", n |-> 0]
ForgedState == [by |-> "", n |-> MaxLogins + 1]
StateParams == {NoState, ForgedState} \cup [by : Clients, n : 1..MaxLogins]

NotConfiguredError ==
    HTTPException(500, "OAuth2 Google client is not configured. Set GOOGLE_CLIENT_ID and GOOGLE_CLIENT_SECRET.")
IdentityRetrievalError ==
    HTTPException(400, "Failed to retrieve user information from Google")

\* An exception no handler catches: the framework answers 500 and the
\* exception leaves the application.
Unhandled(exception) ==
    [exc |-> exception, status |-> 500, detail |-> "Internal Server Error", body |-> EmptyDict]

Redirect(state) ==
    [exc |-> "", status |-> 302, detail |-> "", body |-> [state |-> state]]

\* The None that stands for identity data that was not obtained.
NoUserinfo == [none |-> TRUE]

\* The identity data the provider can give: nothing, an empty mapping, and
\* mappings with or without sub and email.
Identities ==
    { [sub |-> Str("1234"), email |-> Str("a@b.com")],
      [sub |-> Str("")],
      [email |-> Str("a@b.com")] }

\* authorize_access_token: the token mapping it returns, or the exception it
\* raises when the provider answers with an error or a malformed reply.
ExchangeOutcomes ==
    {[raised |-> "OAuthError"]}
        \cup {[raised |-> "", token |-> [access_token |-> Str("at")]]}
        \cup {[raised |-> "", token |-> [access_token |-> Str("at"), userinfo |-> u]] :
                  u \in Identities \cup {EmptyDict}}

\* parse_id_token: the claims of the identity token, None when the exchange
\* result carries no identity token, or the exception of a failed parse.
ParseOutcomes ==
    {[raised |-> "OAuthError"], [raised |-> "", userinfo |-> NoUserinfo]}
        \cup {[raised |-> "", userinfo |-> u] : u \in Identities \cup {EmptyDict}}

\* Python truthiness of a mapping or None.
DictTruthy(d) == d # NoUserinfo /\ d # EmptyDict

\* d.get(k), with None for a missing key.
Get(d, k) == IF k \in DOMAIN d THEN d[k] ELSE Null

----------------------------------------------------------------------------
(* CallbackOrchestrator *)

\* The configuration check passing as soon as one of the two settings is set.
Configured_either == StrTruthy(GOOGLE_CLIENT_ID) \/ StrTruthy(GOOGLE_CLIENT_SECRET)

Configured == StrTruthy(GOOGLE_CLIENT_ID) /\ StrTruthy(GOOGLE_CLIENT_SECRET)

\* auth_callback checking only that the identity data is not empty, and
\* reading sub with get.
FinishCallback_no_sub_check(userinfo, t) ==
    IF ~DictTruthy(userinfo)
    THEN [issue_calls |-> 0, result |-> IdentityRetrievalError]
    ELSE LET subject == Get(userinfo, "sub")
             email == Get(userinfo, "email")
             claims == [sub |-> subject, email |-> email,
                        provider |-> Str("google"), iss |-> Str("ms1-user-service")]
             access_token == create_access_token(claims, None, t)
         IN  [issue_calls |-> 1,
              claims |-> claims,
              result |-> Return([access_token |-> access_token,
                                 token_type |-> "bearer",
                                 expires_in_minutes |-> JWT_EXPIRE_MINUTES,
                                 provider_user |-> [sub |-> subject, email |-> email]])]

\* auth_callback leaving the email out of the token's claims.
FinishCallback_email_dropped(userinfo, t) ==
    IF ~DictTruthy(userinfo) \/ "sub" \notin DOMAIN userinfo
    THEN [issue_calls |-> 0, result |-> IdentityRetrievalError]
    ELSE LET subject == userinfo["sub"]
             email == Get(userinfo, "email")
             claims == [sub |-> subject, email |-> Null,
                        provider |-> Str("google"), iss |-> Str("ms1-user-service")]
             access_token == create_access_token(claims, None, t)
         IN  [issue_calls |-> 1,
              claims |-> claims,
              result |-> Return([access_token |-> access_token,
                                 token_type |-> "bearer",
                                 expires_in_minutes |-> JWT_EXPIRE_MINUTES,
                                 provider_user |-> [sub |-> subject, email |-> email]])]

\* auth_callback keeping the identity in a variable of the module, shared by
\* all requests: a request reads the identity the last minting request left.
FinishCallback_shared_identity(userinfo, t) ==
    IF ~DictTruthy(userinfo) \/ "sub" \notin DOMAIN userinfo
    THEN [issue_calls |-> 0, result |-> IdentityRetrievalError]
    ELSE LET shared == IF issued.minted THEN issued.data ELSE userinfo
             subject == shared["sub"]
             email == Get(shared, "email")
             claims == [sub |-> subject, email |-> email,
                        provider |-> Str("google"), iss |-> Str("ms1-user-service")]
             access_token == create_access_token(claims, None, t)
         IN  [issue_calls |-> 1,
              claims |-> claims,
              result |-> Return([access_token |-> access_token,
                                 token_type |-> "bearer",
                                 expires_in_minutes |-> JWT_EXPIRE_MINUTES,
                                 provider_user |-> [sub |-> subject, email |-> email]])]

\* auth_callback from the identity check on: the response and the token minted.
FinishCallback(userinfo, t) ==
    IF ~DictTruthy(userinfo) \/ "sub" \notin DOMAIN userinfo
    THEN [issue_calls |-> 0, result |-> IdentityRetrievalError]
    ELSE LET subject == userinfo["sub"]
             email == Get(userinfo, "email")
             claims == [sub |-> subject, email |-> email,
                        provider |-> Str("google"), iss |-> Str("ms1-user-service")]
             access_token == create_access_token(claims, None, t)
         IN  [issue_calls |-> 1,
              claims |-> claims,
              result |-> Return([access_token |-> access_token,
                                 token_type |-> "bearer",
                                 expires_in_minutes |-> JWT_EXPIRE_MINUTES,
                                 provider_user |-> [sub |-> subject, email |-> email]])]

----------------------------------------------------------------------------
(* State *)

NotIssued == [minted |-> FALSE]
Idle == [op |-> "none"]
FreeSlot == [pc |-> "idle"]

InitConfig ==
    /\ JWT_EXPIRE_MINUTES \in ExpireMinutesValues
    /\ GOOGLE_CLIENT_ID \in ClientSettingValues
    /\ GOOGLE_CLIENT_SECRET \in ClientSettingValues

InitState ==
    /\ now = 0
    /\ issued = NotIssued
    /\ resp = Idle
    /\ sessions = [c \in Clients |-> {}]
    /\ nstates = 0
    /\ req = [r \in Slots |-> FreeSlot]
    /\ attempt = [n \in 1..MaxLogins |-> "NONE"]

\* The codec and the guard do not read the provider settings: unset.
Init ==
    /\ JWT_EXPIRE_MINUTES \in ExpireMinutesValues
    /\ GOOGLE_CLIENT_ID = None
    /\ GOOGLE_CLIENT_SECRET = None
    /\ InitState

InitFlow == InitConfig /\ InitState

config == <<JWT_EXPIRE_MINUTES, GOOGLE_CLIENT_ID, GOOGLE_CLIENT_SECRET>>
flow == <<sessions, nstates, req, attempt>>

\* The clock advances; the response of the previous instant has been delivered.
Tick ==
    /\ now < MaxTime
    /\ now' = now + 1
    /\ resp' = Idle
    /\ UNCHANGED <<config, issued, flow>>

\* A direct call of create_access_token(data, expires_delta).
Issue(data, expires_delta) ==
    /\ issued' = [minted |-> TRUE,
                  via |-> "create_access_token",
                  at |-> now,
                  data |-> data,
                  data_after |-> caller_data_after(data, expires_delta, now),
                  expires_delta |-> expires_delta,
                  token |-> create_access_token(data, expires_delta, now)]
    /\ resp' = Idle
    /\ UNCHANGED <<now, config, flow>>

\* A request to a protected endpoint, guarded by Depends(require_jwt).
Authenticate(authorization) ==
    LET r == require_jwt(bearer_scheme(authorization), now)
    IN  /\ resp' = [op |-> "require_jwt",
                    authorization |-> authorization,
                    decoded |-> r.decoded,
                    result |-> r.result]
        /\ UNCHANGED <<now, config, issued, flow>>

\* The anti-forgery state generated by the next login: a fresh value, written
\* as the client whose login generated it and its serial number.
NewState(c) == [by |-> c, n |-> nstates + 1]

\* GET /auth/login from client c.  authorize_redirect generates a fresh
\* anti-forgery state, stores it in the client's session and redirects.
auth_login(c) ==
    IF ~Configured
    THEN /\ resp' = [op |-> "auth_login", client |-> c, calls |-> << >>,
                     result |-> NotConfiguredError]
         /\ UNCHANGED <<now, config, issued, flow>>
    ELSE /\ nstates < MaxLogins
         /\ nstates' = nstates + 1
         /\ sessions' = [sessions EXCEPT ![c] = @ \cup {NewState(c)}]
         /\ resp' = [op |-> "auth_login", client |-> c,
                     calls |-> <<"authorize_redirect">>,
                     result |-> Redirect(NewState(c))]
         /\ UNCHANGED <<now, config, issued, req>>

\* The response of a callback request of client c with state parameter st
\* that made the provider calls `calls` and ended as `fin` at `stage`: the
\* configuration check ("config"), the state lookup ("state"), the exchange
\* ("exchange"), the fallback parse ("parse") or the identity check and what
\* follows it ("identity").
CallbackResponse(c, st, calls, stage, userinfo, fin) ==
    [op |-> "auth_callback", client |-> c, state |-> st, calls |-> calls,
     stage |-> stage, userinfo |-> userinfo,
     issue_calls |-> fin.issue_calls, result |-> fin.result]

Crash(exception) == [issue_calls |-> 0, result |-> Unhandled(exception)]

Mint(fin) ==
    IF fin.issue_calls = 1
    THEN issued' = [minted |-> TRUE,
                    via |-> "auth_callback",
                    at |-> now,
                    data |-> fin.claims,
                    data_after |-> caller_data_after(fin.claims, None, now),
                    expires_delta |-> None,
                    token |-> fin.result.body.access_token]
    ELSE UNCHANGED issued

\* GET /auth/callback from client c with state parameter st, up to the point
\* where authorize_access_token waits for the provider: the configuration
\* check, then the test for an error parameter (the provider redirected back
\* with an error instead of a code), then the lookup and removal of the
\* state in the client's session.  The request takes the first free slot;
\* a state is unguessable, so none is presented before it is generated; the
\* provider reports an error with the state of the login it was asked for,
\* or with none.
auth_callback_begin(r, c, st, error) ==
    /\ req[r].pc = "idle"
    /\ \A other \in Slots : other < r => req[other].pc # "idle"
    /\ st.n <= nstates \/ st = ForgedState
    /\ error => st \in sessions[c] \cup {NoState}
    /\ IF ~Configured
       THEN /\ resp' = CallbackResponse(c, st, << >>, "config", NoUserinfo,
                                        [issue_calls |-> 0, result |-> NotConfiguredError])
            /\ UNCHANGED <<sessions, req>>
       ELSE IF error
       THEN /\ resp' = CallbackResponse(c, st, <<"authorize_access_token">>, "exchange",
                                        NoUserinfo, Crash("OAuthError"))
            /\ UNCHANGED <<sessions, req>>
       ELSE /\ sessions' = [sessions EXCEPT ![c] = @ \ {st}]
            /\ IF st \in sessions[c]
               THEN /\ req' = [req EXCEPT ![r] =
                                 [pc |-> "exchange", client |-> c, state |-> st,
                                  calls |-> <<"authorize_access_token">>]]
                    /\ resp' = Idle
               ELSE /\ resp' = CallbackResponse(c, st, <<"authorize_access_token">>, "state",
                                                NoUserinfo, Crash("MismatchingStateError"))
                    /\ UNCHANGED req
    /\ UNCHANGED <<now, config, issued, nstates>>

\* auth_callback calling authorize_access_token a second time when the first
\* call raised.
auth_callback_exchanged_retry(r, outcome) ==
    LET q == req[r]
        userinfo == IF outcome.raised = "" /\ "userinfo" \in DOMAIN outcome.token
                    THEN outcome.token.userinfo ELSE EmptyDict
        fin == FinishCallback(userinfo, now)
    IN  /\ q.pc = "exchange"
        /\ IF outcome.raised # ""
           THEN IF Len(q.calls) < 2
                THEN /\ req' = [req EXCEPT ![r] =
                                  [q EXCEPT !.calls = Append(q.calls, "authorize_access_token")]]
                     /\ resp' = Idle
                     /\ UNCHANGED issued
                ELSE /\ resp' = CallbackResponse(q.client, q.state, q.calls, "exchange",
                                                 NoUserinfo, Crash(outcome.raised))
                     /\ req' = [req EXCEPT ![r] = FreeSlot]
                     /\ UNCHANGED issued
           ELSE IF ~DictTruthy(userinfo)
           THEN /\ req' = [req EXCEPT ![r] =
                             [pc |-> "parse", client |-> q.client, state |-> q.state,
                              calls |-> Append(q.calls, "parse_id_token"),
                              token |-> outcome.token]]
                /\ resp' = Idle
                /\ UNCHANGED issued
           ELSE /\ resp' = CallbackResponse(q.client, q.state, q.calls, "identity", userinfo, fin)
                /\ req' = [req EXCEPT ![r] = FreeSlot]
                /\ Mint(fin)
        /\ UNCHANGED <<now, config, sessions, nstates>>

\* auth_callback without the fallback parse: the identity is whatever the
\* exchange result embeds.
auth_callback_exchanged_no_fallback(r, outcome) ==
    LET q == req[r]
        userinfo == IF outcome.raised = "" /\ "userinfo" \in DOMAIN outcome.token
                    THEN outcome.token.userinfo ELSE EmptyDict
        fin == FinishCallback(userinfo, now)
    IN  /\ q.pc = "exchange"
        /\ IF outcome.raised # ""
           THEN /\ resp' = CallbackResponse(q.client, q.state, q.calls, "exchange", NoUserinfo,
                                            Crash(outcome.raised))
                /\ req' = [req EXCEPT ![r] = FreeSlot]
                /\ UNCHANGED issued
           ELSE /\ resp' = CallbackResponse(q.client, q.state, q.calls, "identity", userinfo, fin)
                /\ req' = [req EXCEPT ![r] = FreeSlot]
                /\ Mint(fin)
        /\ UNCHANGED <<now, config, sessions, nstates>>

\* authorize_access_token returns or raises; auth_callback continues to the
\* fallback parse of the identity token or to its end.
auth_callback_exchanged(r, outcome) ==
    LET q == req[r]
        userinfo == IF outcome.raised = "" /\ "userinfo" \in DOMAIN outcome.token
                    THEN outcome.token.userinfo ELSE EmptyDict
        fin == FinishCallback(userinfo, now)
    IN  /\ q.pc = "exchange"
        /\ IF outcome.raised # ""
           THEN /\ resp' = CallbackResponse(q.client, q.state, q.calls, "exchange", NoUserinfo,
                                            Crash(outcome.raised))
                /\ req' = [req EXCEPT ![r] = FreeSlot]
                /\ UNCHANGED issued
           ELSE IF ~DictTruthy(userinfo)
           THEN /\ req' = [req EXCEPT ![r] =
                             [pc |-> "parse", client |-> q.client, state |-> q.state,
                              calls |-> Append(q.calls, "parse_id_token"),
                              token |-> outcome.token]]
                /\ resp' = Idle
                /\ UNCHANGED issued
           ELSE /\ resp' = CallbackResponse(q.client, q.state, q.calls, "identity", userinfo, fin)
                /\ req' = [req EXCEPT ![r] = FreeSlot]
                /\ Mint(fin)
        /\ UNCHANGED <<now, config, sessions, nstates>>

\* parse_id_token returns or raises; auth_callback runs to its end.
auth_callback_parsed(r, outcome) ==
    LET q == req[r]
        fin == FinishCallback(outcome.userinfo, now)
    IN  /\ q.pc = "parse"
        /\ req' = [req EXCEPT ![r] = FreeSlot]
        /\ IF outcome.raised # ""
           THEN /\ resp' = CallbackResponse(q.client, q.state, q.calls, "parse", NoUserinfo,
                                            Crash(outcome.raised))
                /\ UNCHANGED issued
           ELSE /\ resp' = CallbackResponse(q.client, q.state, q.calls, "identity",
                                            outcome.userinfo, fin)
                /\ Mint(fin)
        /\ UNCHANGED <<now, config, sessions, nstates>>

Next ==
    \/ Tick
    \/ \E data \in ClaimsInputs, expires_delta \in DeltaInputs : Issue(data, expires_delta)
    \/ \E authorization \in AuthorizationHeaders : Authenticate(authorization)

NextFlow ==
    \/ \E c \in Clients : auth_login(c) /\ UNCHANGED attempt
    \/ \E r \in Slots, c \in Clients, st \in StateParams, error \in BOOLEAN :
            auth_callback_begin(r, c, st, error) /\ UNCHANGED attempt
    \/ \E r \in Slots, outcome \in ExchangeOutcomes :
            auth_callback_exchanged(r, outcome) /\ UNCHANGED attempt
    \/ \E r \in Slots, outcome \in ParseOutcomes :
            auth_callback_parsed(r, outcome) /\ UNCHANGED attempt

\* The provider settings are set: only then does a login attempt exist.
InitAttempt ==
    /\ JWT_EXPIRE_MINUTES \in ExpireMinutesValues
    /\ GOOGLE_CLIENT_ID = Str("client")
    /\ GOOGLE_CLIENT_SECRET = Str("client")
    /\ InitState

\* The provider settings are set and tokens live for a positive time.
InitConcurrent == InitAttempt /\ JWT_EXPIRE_MINUTES > 0

\* The login attempt that generated anti-forgery state number n is now in
\* phase p.
Phase(n, p) == [attempt EXCEPT ![n] = p]

\* The phase of the attempt whose callback request in slot r has just taken a
\* step: unchanged while the request still waits, ISSUED when it answered
\* with a token, FAILED when it answered with anything else.
PhaseAfter(r) ==
    IF req'[r].pc # "idle" THEN attempt
    ELSE Phase(req[r].state.n, IF resp'.issue_calls = 1 THEN "ISSUED" ELSE "FAILED")

\* The browser follows the redirect of login attempt n to the provider.
redirect_followed(n) ==
    /\ attempt[n] = "INITIATED"
    /\ attempt' = Phase(n, "PENDING_PROVIDER")
    /\ resp' = Idle
    /\ UNCHANGED <<now, config, issued, sessions, nstates, req>>

\* The client disconnects while the callback request in slot r is suspended
\* at an await: the handler is cancelled there, runs no further and sends
\* no response.
abort(r) ==
    /\ req[r].pc \in {"exchange", "parse"}
    /\ req' = [req EXCEPT ![r] = FreeSlot]
    /\ attempt' = Phase(req[r].state.n, "FAILED")
    /\ resp' = Idle
    /\ UNCHANGED <<now, config, issued, sessions, nstates>>

\* The steps of login and callback with the phase of each attempt recorded.
\* The provider redirects back with a state only to a browser that followed
\* the redirect carrying it.
NextAttempt ==
    \/ \E c \in Clients :
            /\ auth_login(c)
            /\ attempt' = Phase(nstates + 1, "INITIATED")
    \/ \E n \in 1..MaxLogins : redirect_followed(n)
    \/ \E r \in Slots, c \in Clients, st \in StateParams, error \in BOOLEAN :
            /\ st \in sessions[c] => attempt[st.n] # "INITIATED"
            /\ auth_callback_begin(r, c, st, error)
            /\ attempt' = IF st \notin sessions[c] THEN attempt
                          ELSE Phase(st.n, IF error THEN "FAILED" ELSE "CALLBACK_RECEIVED")
    \/ \E r \in Slots, outcome \in ExchangeOutcomes :
            auth_callback_exchanged(r, outcome) /\ attempt' = PhaseAfter(r)
    \/ \E r \in Slots, outcome \in ParseOutcomes :
            auth_callback_parsed(r, outcome) /\ attempt' = PhaseAfter(r)
    \/ \E r \in Slots : abort(r)

\* Login and callback requests interleaved with requests to a protected
\* endpoint, each presenting what a client may hold.
NextConcurrent ==
    \/ NextFlow
    \/ \E authorization \in AuthorizationHeaders :
            Authenticate(authorization)

\* The service some time after its logins: the provider settings are set and
\* the last login, of client c1, still awaits its callback.
InitClocked ==
    /\ JWT_EXPIRE_MINUTES \in ExpireMinutesValues
    /\ GOOGLE_CLIENT_ID = Str("client")
    /\ GOOGLE_CLIENT_SECRET = Str("client")
    /\ now = 0
    /\ issued = NotIssued
    /\ resp = Idle
    /\ sessions = [c \in Clients |->
                      IF c = "c1" THEN {[by |-> "c1", n |-> MaxLogins]} ELSE {}]
    /\ nstates = MaxLogins
    /\ req = [r \in Slots |-> FreeSlot]
    /\ attempt = [n \in 1..MaxLogins |-> "NONE"]

\* The callback requests of that service as time passes.
NextClocked ==
    \/ Tick
    \/ \E r \in Slots, c \in Clients, st \in StateParams, error \in BOOLEAN :
            auth_callback_begin(r, c, st, error) /\ UNCHANGED attempt
    \/ \E r \in Slots, outcome \in ExchangeOutcomes :
            auth_callback_exchanged(r, outcome) /\ UNCHANGED attempt
    \/ \E r \in Slots, outcome \in ParseOutcomes :
            auth_callback_parsed(r, outcome) /\ UNCHANGED attempt

Spec == Init /\ [][Next]_vars

ClockedSpec == InitClocked /\ [][NextClocked]_vars

ConcurrentSpec == InitConcurrent /\ [][NextConcurrent]_vars

AttemptSpec == InitAttempt /\ [][NextAttempt]_vars

FlowSpec == InitFlow /\ [][NextFlow]_vars

----------------------------------------------------------------------------
(* Properties of the codec and the guard, checked under Spec *)

\* The guarded request of this instant presents a Bearer token.
BearerPresented ==
    /\ resp.op = "require_jwt"
    /\ resp.authorization.scheme = "Bearer"

\* The guarded request of this instant presents the issued token unchanged.
IssuedPresented ==
    /\ BearerPresented
    /\ issued.minted
    /\ resp.authorization.credentials = issued.token

HasSub == issued.minted /\ "sub" \in DOMAIN issued.data
SubIsString == HasSub /\ issued.data["sub"][1] = "str"

ExplicitTtl == issued.minted /\ issued.expires_delta[1] = "timedelta"
Ttl == issued.expires_delta[2]

\* The exp claim of the issued token, in whole seconds.
IssuedExp == issued.token.payload["exp"][2]

PassengersKept(body) ==
    \A k \in (DOMAIN issued.data) \ {"exp"} : k \in DOMAIN body /\ body[k] = issued.data[k]

\* C1 as stated: for every claims mapping with sub present and every positive
\* ttl, validating the issued token before its expiry succeeds and returns
\* sub and the passenger fields unchanged, with exp equal to issuance time +
\* ttl.
C1_RoundTripExactExp ==
    (IssuedPresented /\ HasSub /\ ExplicitTtl /\ Ttl > 0 /\ now < issued.at + Ttl)
        => /\ resp.result.exc = ""
           /\ PassengersKept(resp.result.body)
           /\ resp.result.body["exp"][2] * TicksPerSecond = issued.at + Ttl

\* C1 amended: for every claims mapping whose sub is a string and every
\* positive ttl, validating the issued token before its expiry succeeds and
\* returns sub and the passenger fields unchanged, with exp equal to issuance
\* time + ttl cut down to whole seconds, never later than issuance time + ttl.
C1_RoundTrip ==
    (IssuedPresented /\ SubIsString /\ ExplicitTtl /\ Ttl > 0 /\ now < issued.at + Ttl)
        => /\ resp.result.exc = ""
           /\ PassengersKept(resp.result.body)
           /\ resp.result.body["exp"] = Num((issued.at + Ttl) \div TicksPerSecond)
           /\ resp.result.body["exp"][2] * TicksPerSecond <= issued.at + Ttl

\* C1 witness: a token with a string sub, a null email and a ttl that is not
\* a whole number of seconds after issuance was validated before its expiry.
C1_Witness ==
    /\ IssuedPresented /\ SubIsString /\ ExplicitTtl /\ Ttl > 0
    /\ now < issued.at + Ttl
    /\ now > issued.at
    /\ (issued.at + Ttl) % TicksPerSecond # 0
    /\ issued.data["email"] = Null
    /\ resp.result.exc = ""

\* The signature segment of the presented token decodes to the MAC of its
\* header and payload under the configured secret and algorithm.
GenuineSignature(token) ==
    base64url_decode(token.signature)
        = HmacSign(JWT_SECRET_KEY, JWT_ALGORITHM, token.header, token.payload)

\* C2 as stated: a presented token that differs from the issued token in the
\* signature segment is rejected with InvalidTokenError and no claims are
\* returned.
C2_AnySignatureChangeRejected ==
    (BearerPresented /\ issued.minted
        /\ resp.authorization.credentials.header = issued.token.header
        /\ resp.authorization.credentials.payload = issued.token.payload
        /\ resp.authorization.credentials.signature # issued.token.signature)
        => resp.result = InvalidTokenError

\* C2 amended: a presented token whose signature segment decodes to bytes
\* other than the MAC of its header and payload under the configured secret
\* and algorithm is rejected with InvalidTokenError and no claims are
\* returned (a segment that differs only in the unused trailing bits of its
\* last character decodes to the same bytes).
C2_ForgedSignatureRejected ==
    (BearerPresented /\ ~GenuineSignature(resp.authorization.credentials))
        => /\ resp.result = InvalidTokenError
           /\ resp.result.body = EmptyDict

\* C2 witness: an unexpired token with a string sub, re-signed under another
\* secret, was presented and rejected.
C2_Witness ==
    /\ BearerPresented /\ SubIsString
    /\ timegm(now) <= IssuedExp
    /\ resp.authorization.credentials
           = ResignedWith(issued.token, "other-secret", JWT_ALGORITHM, issued.token.payload)
    /\ resp.result = InvalidTokenError

\* The issued token passes validation at clock reading t.
ValidAt(t) == decode_access_token(issued.token, t).exc = ""

SubStringOrAbsent == issued.minted /\ (HasSub => SubIsString)

\* C3 as stated, for tokens with well-formed claims: with E the expiry
\* instant of the issued token, validation succeeds at every time t <= E and
\* fails with InvalidTokenError at every time t > E.
C3_InstantBoundary ==
    (IssuedPresented /\ SubStringOrAbsent)
        => /\ (now <= IssuedExp * TicksPerSecond => resp.result.exc = "")
           /\ (now > IssuedExp * TicksPerSecond => resp.result = InvalidTokenError)

\* C3 amended: for every issued token whose sub, if present, is a string,
\* validation succeeds at every time whose whole second is not after the
\* token's exp and fails with InvalidTokenError at every time whose whole
\* second is after it; a token issued with a ttl of one minute fails once
\* one minute and one second have elapsed; and a token that has failed for
\* expiry never validates again.
C3_SecondBoundary ==
    /\ [](IssuedPresented /\ SubStringOrAbsent
            => /\ (timegm(now) <= IssuedExp => resp.result = Return(issued.token.payload))
               /\ (timegm(now) > IssuedExp => resp.result = InvalidTokenError)
               /\ ((/\ issued.expires_delta = TimeDelta(TicksPerMinute)
                    /\ now >= issued.at + TicksPerMinute + TicksPerSecond)
                        => resp.result = InvalidTokenError))
    /\ [][issued.minted /\ issued' = issued /\ timegm(now) > IssuedExp /\ ~ValidAt(now)
            => ~decode_access_token(issued'.token, now').exc = ""]_vars

\* C3 witness: a token issued with a ttl of one minute was presented after
\* one minute and one second and rejected.
C3_Witness ==
    /\ IssuedPresented /\ SubIsString
    /\ issued.expires_delta = TimeDelta(TicksPerMinute)
    /\ now >= issued.at + TicksPerMinute + TicksPerSecond
    /\ resp.result = InvalidTokenError

\* C4, under a positive configured time-to-live: a token issued with ttl = 0,
\* or with a ttl that places its expiry in the past, fails validation with
\* InvalidTokenError right after issuance.
C4_ZeroTtlRejected ==
    (IssuedPresented /\ ExplicitTtl /\ Ttl <= 0 /\ now = issued.at /\ JWT_EXPIRE_MINUTES > 0)
        => resp.result = InvalidTokenError

\* C5: every minted token carries a sub that is a non-empty string and an
\* exp strictly later than the minting instant.
C5_MintingInvariant ==
    issued.minted
        => /\ "sub" \in DOMAIN issued.token.payload
           /\ issued.token.payload["sub"][1] = "str"
           /\ issued.token.payload["sub"][2] # ""
           /\ IssuedExp * TicksPerSecond > issued.at

\* C8: a guarded request that carries no bearer credential fails with
\* MissingCredentialError, never with InvalidTokenError, and the decoder is
\* not called.
C8_MissingCredential ==
    (resp.op = "require_jwt" /\ bearer_scheme(resp.authorization) = NoCredentials)
        => /\ resp.result = MissingCredentialError
           /\ resp.result # InvalidTokenError
           /\ ~resp.decoded

\* C8 witness: a guarded request without an Authorization header was
\* answered while a token was in circulation.
C8_Witness ==
    /\ resp.op = "require_jwt"
    /\ resp.authorization = NoHeader
    /\ issued.minted
    /\ resp.result.status = 401

----------------------------------------------------------------------------
(* Properties of the login and callback handlers, checked under FlowSpec *)

CallbackAnswered == resp.op = "auth_callback"

NoSubject(userinfo) == ~DictTruthy(userinfo) \/ "sub" \notin DOMAIN userinfo

\* The failure responses the handlers build themselves.
HandledFailure(result) == result.exc = "HTTPException"

\* A failure response of its own kind for a failed exchange.
IsProviderExchangeError(result) ==
    /\ HandledFailure(result)
    /\ result # NotConfiguredError
    /\ result # IdentityRetrievalError
    /\ result.status \notin {400, 500}

\* C6: when the exchange completes and the identity data, embedded or parsed
\* from the identity token, is empty or has no sub, callback fails with
\* IdentityRetrievalError (400), create_access_token is not called and no
\* token is produced.
C6_NoSubjectRejected ==
    /\ []((CallbackAnswered /\ resp.stage = "identity" /\ NoSubject(resp.userinfo))
            => /\ resp.result = IdentityRetrievalError
               /\ resp.result.status = 400
               /\ resp.issue_calls = 0
               /\ "access_token" \notin DOMAIN resp.result.body)
    /\ [][(resp'.op = "auth_callback" /\ resp'.stage = "identity" /\ NoSubject(resp'.userinfo))
            => issued' = issued]_vars

\* C6 witness: the exchange carried no userinfo, the fallback parse gave
\* identity data without sub, and the callback was answered 400.
C6_Witness ==
    /\ CallbackAnswered
    /\ resp.calls = <<"authorize_access_token", "parse_id_token">>
    /\ resp.userinfo = [email |-> Str("a@b.com")]
    /\ resp.result = IdentityRetrievalError

\* C7: when the client id or the client secret is absent or empty, login and
\* callback fail with ProviderNotConfiguredError (500) before any provider
\* operation, whatever the request holds, and no token is issued.
C7_FailFast ==
    (GOOGLE_CLIENT_ID \in {None, Str("")} \/ GOOGLE_CLIENT_SECRET \in {None, Str("")})
        => /\ (resp.op \in {"auth_login", "auth_callback"}
                 => resp.result = NotConfiguredError /\ resp.calls = << >>)
           /\ (CallbackAnswered => resp.issue_calls = 0)
           /\ issued = NotIssued
           /\ \A r \in Slots : req[r] = FreeSlot
           /\ \A c \in Clients : sessions[c] = {}

\* C7 witness: with the client id set and the client secret empty, a callback
\* carrying a state parameter was answered 500.
C7_Witness ==
    /\ GOOGLE_CLIENT_ID = Str("client")
    /\ GOOGLE_CLIENT_SECRET = Str("")
    /\ CallbackAnswered
    /\ resp.state # NoState
    /\ resp.result.status = 500

\* C9: a provider-side failure of the code exchange is answered with a
\* ProviderExchangeError response, distinct from the 500 and 400 responses;
\* it does not leave the handler uncaught, and no token is issued.
C9_ExchangeFailureSurfaced ==
    (CallbackAnswered /\ resp.stage = "exchange")
        => /\ IsProviderExchangeError(resp.result)
           /\ resp.issue_calls = 0

\* A token is issued only by a callback whose state parameter was generated
\* by an earlier login of the same client, and only such callbacks reach
\* the exchange.
StateCorrelation ==
    /\ (CallbackAnswered /\ resp.issue_calls = 1)
            => resp.state.by = resp.client /\ resp.state.n \in 1..nstates
    /\ \A r \in Slots : req[r] # FreeSlot
            => req[r].state.by = req[r].client /\ req[r].state.n \in 1..nstates

\* C10: a callback whose state parameter is absent or does not match a state
\* stored by an earlier login of the same client is rejected with
\* ProviderExchangeError and issues no token; a token is issued only by a
\* callback whose state matches one that a login generated.
C10_StateMismatchRejected ==
    /\ (CallbackAnswered /\ resp.stage = "state")
            => IsProviderExchangeError(resp.result) /\ resp.issue_calls = 0
    /\ StateCorrelation


----------------------------------------------------------------------------
(* Properties of the login attempts, checked under AttemptSpec *)

PhaseMoves ==
    {<<"NONE", "INITIATED">>,
     <<"INITIATED", "PENDING_PROVIDER">>,
     <<"PENDING_PROVIDER", "CALLBACK_RECEIVED">>,
     <<"CALLBACK_RECEIVED", "ISSUED">>,
     <<"INITIATED", "FAILED">>,
     <<"PENDING_PROVIDER", "FAILED">>,
     <<"CALLBACK_RECEIVED", "FAILED">>}

\* The callback just answered was one of a login attempt of this service.
AttemptAnswered ==
    /\ CallbackAnswered
    /\ resp.stage \in {"exchange", "parse", "identity"}
    /\ resp.state.n \in 1..nstates

\* The token of the callback just answered exists only for an attempt in
\* ISSUED, and an attempt is in ISSUED only once a callback minted a token.
TokenIffIssued ==
    /\ (AttemptAnswered /\ "access_token" \in DOMAIN resp.result.body)
           => attempt[resp.state.n] = "ISSUED"
    /\ (\E n \in 1..MaxLogins : attempt[n] = "ISSUED")
           => (issued # NotIssued /\ issued.via = "auth_callback")

\* C11: a login attempt moves only INITIATED -> PENDING_PROVIDER ->
\* CALLBACK_RECEIVED -> ISSUED, or to FAILED from a phase before ISSUED;
\* ISSUED and FAILED are never left; a token exists for an attempt exactly
\* when the attempt is in ISSUED.
C11_AttemptStateMachine ==
    /\ [][\A n \in 1..MaxLogins :
             attempt'[n] # attempt[n] => <<attempt[n], attempt'[n]>> \in PhaseMoves]_vars
    /\ []TokenIffIssued

\* The part of C11 the code keeps: no token without ISSUED, and an aborted
\* or failed callback request mints nothing.
C11_TokenOnlyWhenIssued == TokenIffIssued

----------------------------------------------------------------------------
(* Properties of the successful callback, checked under FlowSpec *)

\* The callback just answered succeeded.
CallbackSucceeded == CallbackAnswered /\ resp.result.status = 200

\* The claims a token minted for identity data u carries besides exp.
IdentityClaims(u) ==
    [sub |-> u["sub"], email |-> Get(u, "email"),
     provider |-> Str("google"), iss |-> Str("ms1-user-service")]

\* C12: after a successful callback with provider identity {sub, email}, the
\* access_token validates, at every instant up to its expiry, to exactly the
\* claims sub, email, provider "google", iss "ms1-user-service" and exp; the
\* token_type is "bearer" and provider_user is exactly {sub, email} of the
\* same identity.
C12_CallbackTokenClaims ==
    CallbackSucceeded =>
        LET u == resp.userinfo
            body == resp.result.body
            token == body.access_token
        IN  /\ DOMAIN body = {"access_token", "token_type", "expires_in_minutes", "provider_user"}
            /\ body.token_type = "bearer"
            /\ body.provider_user = [sub |-> u["sub"], email |-> Get(u, "email")]
            /\ DOMAIN token.payload = DOMAIN IdentityClaims(u) \cup {"exp"}
            /\ \A t \in now..MaxTime :
                   timegm(t) <= token.payload["exp"][2] =>
                       LET decoded == decode_access_token(token, t)
                       IN  /\ decoded.status = 200
                           /\ \A k \in DOMAIN IdentityClaims(u) :
                                  decoded.body[k] = IdentityClaims(u)[k]
                           /\ decoded.body["exp"][1] = "num"

\* C12 witness: a callback succeeded for sub "1234" and email "a@b.com", and
\* its token validates now.
C12_Witness ==
    /\ CallbackSucceeded
    /\ resp.userinfo = [sub |-> Str("1234"), email |-> Str("a@b.com")]
    /\ decode_access_token(resp.result.body.access_token, now).status = 200

----------------------------------------------------------------------------
(* Further properties of the codec and the guard, checked under Spec *)

\* The token presented to the guard at this instant.
Presented == resp.authorization.credentials

\* C13: validation fails with InvalidTokenError for every correctly signed
\* token whose payload has no exp claim and for every token whose header
\* algorithm is not the configured one; a token is accepted only if its
\* signature matches, its algorithm is the configured one and its exp is
\* present and not expired.
C13_RejectsMissingExpAndForeignAlg ==
    BearerPresented =>
        /\ (GenuineSignature(Presented) /\ "exp" \notin DOMAIN Presented.payload)
               => resp.result = InvalidTokenError
        /\ Presented.header.alg # JWT_ALGORITHM => resp.result = InvalidTokenError
        /\ resp.result.exc = ""
               => /\ GenuineSignature(Presented)
                  /\ Presented.header.alg = JWT_ALGORITHM
                  /\ "exp" \in DOMAIN Presented.payload
                  /\ timegm(now) <= Presented.payload["exp"][2]

\* C14: for every claims mapping, with or without its own exp, and every ttl
\* the caller passes, the exp of the minted token is the issuance time + that
\* ttl (as a whole second of the epoch) and not the caller's value.
C14_ExpFromCallerTtl ==
    ExplicitTtl =>
        /\ IssuedExp = timegm(issued.at + Ttl)
        /\ "exp" \in DOMAIN issued.data => issued.token.payload["exp"] # issued.data["exp"]

\* C15: a request that carries a bearer token has exactly the outcome of
\* validating that token at that time, the claims returned or the
\* InvalidTokenError (401 "Invalid or expired JWT token") unchanged, and the
\* guard changes no state.
C15_GuardDelegates ==
    /\ [](BearerPresented
            => /\ resp.decoded
               /\ resp.result = decode_access_token(Presented, now)
               /\ resp.result.exc # ""
                      => (resp.result.status = 401
                            /\ resp.result.detail = "Invalid or expired JWT token"))
    /\ [][resp'.op = "require_jwt" => UNCHANGED <<now, config, issued, flow>>]_vars

\* C15 witness: the guard rejected a forged token with the InvalidTokenError
\* of the decoder.
C15_Witness ==
    /\ BearerPresented
    /\ Presented \in SignatureForgeries(issued.token)
    /\ resp.result = InvalidTokenError

----------------------------------------------------------------------------
(* Further properties of login and callback, checked under FlowSpec *)

\* How many times the provider call `name` occurs in the sequence `calls`.
Count(calls, name) == Cardinality({i \in DOMAIN calls : calls[i] = name})

\* C16: within one callback request the code exchange is attempted at most
\* once; a request in which the exchange, the parse or a check failed ends
\* in a failure response for that same request, without a token; a success
\* response is given only by a request in which nothing failed.
C16_NoRetryNoSwallow ==
    /\ \A r \in Slots :
           req[r] # FreeSlot => Count(req[r].calls, "authorize_access_token") = 1
    /\ resp.op \in {"auth_login", "auth_callback"}
           => /\ Count(resp.calls, "authorize_access_token") <= 1
              /\ Count(resp.calls, "authorize_redirect") <= 1
              /\ resp.result.exc # ""
                     => (resp.result.status >= 400 /\ resp.result.body = EmptyDict)
    /\ CallbackAnswered
           => /\ resp.stage \in {"config", "state", "exchange", "parse"}
                     => (resp.result.exc # "" /\ resp.issue_calls = 0)
              /\ resp.result.status = 200
                     => (resp.stage = "identity" /\ DictTruthy(resp.userinfo)
                           /\ "sub" \in DOMAIN resp.userinfo)

\* C16 witness: the exchange of a callback request failed after its single
\* attempt and the request was answered with a failure.
C16_Witness ==
    /\ CallbackAnswered
    /\ resp.stage = "exchange"
    /\ resp.calls = <<"authorize_access_token">>
    /\ resp.state \in [by : Clients, n : 1..nstates]
    /\ resp.result.status = 500

\* The identity data embedded in the exchange result: token.get("userinfo").
Embedded(token) == IF "userinfo" \in DOMAIN token THEN token.userinfo ELSE NoUserinfo

\* C17: the fallback parse is performed exactly when the exchange result
\* embeds no identity data or empty identity data; otherwise the embedded
\* data is the identity; the sub and email of the minted token are those of
\* the identity selected.
C17_IdentitySource ==
    /\ \A r \in Slots :
           req[r].pc = "parse"
               => (~DictTruthy(Embedded(req[r].token))
                     /\ Count(req[r].calls, "parse_id_token") = 1)
    /\ \A r \in Slots :
           req[r].pc = "exchange" => Count(req[r].calls, "parse_id_token") = 0
    /\ (CallbackAnswered /\ resp.stage = "identity"
           /\ Count(resp.calls, "parse_id_token") = 0)
           => DictTruthy(resp.userinfo)
    /\ CallbackSucceeded
           => /\ resp.result.body.access_token.payload["sub"] = resp.userinfo["sub"]
              /\ resp.result.body.access_token.payload["email"] = Get(resp.userinfo, "email")

\* C17 witness: a callback whose exchange result embedded no identity data
\* succeeded with the identity of the fallback parse.
C17_Witness ==
    /\ CallbackSucceeded
    /\ resp.calls = <<"authorize_access_token", "parse_id_token">>
    /\ resp.userinfo = [sub |-> Str("1234"), email |-> Str("a@b.com")]

----------------------------------------------------------------------------
(* Properties of concurrent requests, checked under ConcurrentSpec *)

\* This step answers the callback request of slot r.
Completes(r) ==
    /\ req[r].pc # "idle"
    /\ req'[r].pc = "idle"
    /\ resp'.op = "auth_callback"

\* C18: however login, callback and guarded requests interleave, the token a
\* callback request issues carries the sub and email of the identity that
\* same request obtained, the request answers its own client and state, a
\* step of one request leaves the other requests in flight as they were,
\* and no step changes the configuration.
C18_RequestIsolation ==
    /\ [][UNCHANGED config]_vars
    /\ [][\A r \in Slots :
             Completes(r) =>
                 /\ resp'.client = req[r].client
                 /\ resp'.state = req[r].state
                 /\ \A other \in Slots \ {r} : req'[other] = req[other]
                 /\ resp'.result.status = 200 =>
                        LET token == resp'.result.body.access_token
                        IN  /\ token.payload["sub"] = resp'.userinfo["sub"]
                            /\ token.payload["email"] = Get(resp'.userinfo, "email")
                            /\ issued'.token = token
                            /\ issued'.data["sub"] = resp'.userinfo["sub"]]_vars
    /\ [][resp'.op \in {"require_jwt", "auth_login"} =>
             (req' = req /\ issued' = issued /\ attempt' = attempt)]_vars

\* C18 witness: a callback request was answered with a token for its own
\* identity while a callback request of another client is suspended.
C18_Witness ==
    /\ CallbackSucceeded
    /\ resp.userinfo = [sub |-> Str("")]
    /\ resp.result.body.access_token.payload["sub"] = Str("")
    /\ \E r \in Slots : req[r].pc \in {"exchange", "parse"} /\ req[r].client # resp.client

----------------------------------------------------------------------------
(* Properties of the token lifetime reported by the callback, checked under
   ClockedSpec *)

\* The lifetime the response of the successful callback reports, in ticks.
ReportedLifetime == resp.result.body.expires_in_minutes * TicksPerMinute

\* The exp of the token in the response of the successful callback, in whole
\* seconds.
ResponseExp == resp.result.body.access_token.payload["exp"][2]

\* C19 as stated: the expires_in_minutes of a successful callback is the
\* configured JWT_EXPIRE_MINUTES and the exp of the token in that response is
\* exactly the issuance time + expires_in_minutes minutes.
C19_ExactLifetime ==
    CallbackSucceeded =>
        /\ resp.result.body.expires_in_minutes = JWT_EXPIRE_MINUTES
        /\ ResponseExp * TicksPerSecond = now + ReportedLifetime

\* C19 amended: the exp of the token is the issuance time + expires_in_minutes
\* minutes cut down to a whole second, so the token expires less than one
\* second before the reported lifetime has passed and never after it.
C19_LifetimeWithinASecond ==
    CallbackSucceeded =>
        /\ resp.result.body.expires_in_minutes = JWT_EXPIRE_MINUTES
        /\ issued.at = now
        /\ ResponseExp * TicksPerSecond <= now + ReportedLifetime
        /\ now + ReportedLifetime < (ResponseExp + 1) * TicksPerSecond

\* C19 witness: a callback succeeded at an instant that is not a whole second
\* under a positive configured lifetime.
C19_Witness ==
    /\ CallbackSucceeded
    /\ JWT_EXPIRE_MINUTES > 0
    /\ now % TicksPerSecond # 0

----------------------------------------------------------------------------
(* Property of the caller's mapping, checked under Spec *)

====
